---- MODULE Spec2Model ----
(***************************************************************************)
(* Plant growth analysis: the panel extraction of cropper.crop_front_panel *)
(* (crop.py is its legacy copy), the colour segmentation, enhancement and  *)
(* growth arithmetic of analyzer.PlantAnalyzer (plant_analysis.py is its   *)
(* legacy copy).                                                           *)
(*                                                                         *)
(* Images are records [h, w, px]: px is a sequence of h rows of w pixels,  *)
(* a pixel is a triple <<b, g, r>> of 8-bit samples (OpenCV's BGR order).  *)
(* Python floats are modelled by exact rationals <<n, d>> with d > 0.      *)
(***************************************************************************)
EXTENDS Integers, Sequences, FiniteSets, TLC

VARIABLES
    fs,       \* the files: path -> "missing" | "corrupt" | an image
    weights,  \* whether MODEL_WEIGHTS_PATH exists
    model,    \* cropper._model: "None" or "YOLO"
    call,     \* the arguments of the running call
    phase,    \* which of the call's images is being analysed: 1 or 2
    pc,       \* the position in the running call
    img,      \* the decoded source image (img of crop_front_panel)
    boxes,    \* the detector's boxes, results[0].boxes
    panel,    \* the image handed to segmentation (final_img, then enhanced)
    pct,      \* the coverages computed so far, in order
    result,   \* what the call returned
    exc,      \* the exception that reached the caller
    how,      \* how each analysed image got its panel, in order
    log       \* what the call did, in order

vars == <<fs, weights, model, call, phase, pc, img, boxes, panel, pct, result, exc, how, log>>

----------------------------------------------------------------------------
(* Bounds of the model *)

\* the largest number of boxes one detector call reports
MaxBoxes == 3
\* the largest pixel count of an image in the growth arithmetic
MaxTotal == 20

----------------------------------------------------------------------------
(* Arithmetic helpers *)

Min2(a, b) == IF a < b THEN a ELSE b
Max2(a, b) == IF a > b THEN a ELSE b
Abs(a) == IF a < 0 THEN -a ELSE a

\* cvRound / lrint on n/d for n >= 0, d > 0: to nearest, ties to even
RoundHalfEven(n, d) ==
    LET q == n \div d
        r == n % d
    IN  IF 2 * r < d THEN q
        ELSE IF 2 * r > d THEN q + 1
        ELSE q + (q % 2)

\* saturate_cast<uchar>
SaturateU8(v) == Max2(0, Min2(255, v))

RECURSIVE SumSeq(_)
SumSeq(s) == IF s = <<>> THEN 0 ELSE Head(s) + SumSeq(Tail(s))

RECURSIVE MaxSeq(_)
MaxSeq(s) == IF Len(s) = 1 THEN s[1] ELSE Max2(Head(s), MaxSeq(Tail(s)))

RECURSIVE Flatten(_)
Flatten(ss) == IF ss = <<>> THEN <<>> ELSE Head(ss) \o Flatten(Tail(ss))

----------------------------------------------------------------------------
(* Images *)

\* ndarray.size of a 3-channel image
Size(im) == im.h * im.w * 3

Palette ==
    << <<0, 0, 0>>,        \* black
       <<0, 255, 0>>,      \* pure green, HSV (60, 255, 255)
       <<255, 0, 255>>,    \* magenta, HSV (150, 255, 255)
       <<40, 200, 40>>,    \* the greenish fill of create_dummy_images
       <<128, 128, 128>>,  \* grey
       <<0, 0, 255>>,      \* red
       <<200, 255, 200>> >> \* pale green, saturation 55

\* a w x h image whose pixels run through the palette from `seed`
MkImage(w, h, seed) ==
    [h |-> h, w |-> w,
     px |-> [r \in 1..h |-> [c \in 1..w |->
                Palette[(((r - 1) * w + (c - 1) + seed) % Len(Palette)) + 1]]]]

----------------------------------------------------------------------------
(* Colour conversion: cv2.cvtColor on 8-bit images *)

\* OpenCV's sdiv_table[v] = cvRound((255 << 12) / v), 0 for v = 0
SDivTable(v) == IF v = 0 THEN 0 ELSE RoundHalfEven(255 * 4096, v)
\* OpenCV's hdiv_table180[d] = cvRound((180 << 12) / (6 d)), 0 for d = 0
HDivTable(d) == IF d = 0 THEN 0 ELSE RoundHalfEven(180 * 4096, 6 * d)

\* cv2.COLOR_BGR2HSV of one pixel: <<h, s, v>>, h in 0..179
BGR2HSVPixel(p) ==
    LET b == p[1]
        g == p[2]
        r == p[3]
        v == Max2(b, Max2(g, r))
        vmin == Min2(b, Min2(g, r))
        diff == v - vmin
        s == (diff * SDivTable(v) + 2048) \div 4096
        h0 == IF v = r THEN g - b
              ELSE IF v = g THEN b - r + 2 * diff
              ELSE r - g + 4 * diff
        h1 == (h0 * HDivTable(diff) + 2048) \div 4096
        h == IF h1 < 0 THEN h1 + 180 ELSE h1
    IN  <<h, s, v>>

\* cv2.COLOR_HSV2BGR of one pixel (hue in 0..179): the sector table of
\* HSV2RGB_native, each channel rounded from v * (1 - s * f) * 255
HSV2BGRPixel(q) ==
    LET h == q[1]
        s == q[2]
        v == q[3]
        sector == (h \div 30) % 6
        hm == h % 30
        tab == << v,
                  RoundHalfEven(v * (255 - s), 255),
                  RoundHalfEven(v * (7650 - s * hm), 7650),
                  RoundHalfEven(v * (7650 - s * (30 - hm)), 7650) >>
        sectorData == << <<2, 4, 1>>, <<2, 1, 3>>, <<4, 1, 2>>,
                         <<1, 3, 2>>, <<1, 2, 4>>, <<3, 2, 1>> >>
        idx == sectorData[sector + 1]
    IN  IF s = 0 THEN <<v, v, v>>
        ELSE <<tab[idx[1]], tab[idx[2]], tab[idx[3]]>>

MapPixels(im, F(_)) ==
    [h |-> im.h, w |-> im.w,
     px |-> [r \in 1..Len(im.px) |-> [c \in 1..Len(im.px[r]) |-> F(im.px[r][c])]]]

BGR2HSV(im) == MapPixels(im, BGR2HSVPixel)
HSV2BGR(im) == MapPixels(im, HSV2BGRPixel)

----------------------------------------------------------------------------
(* config.py: the colour ranges *)

LOWER_GREEN == <<35, 40, 40>>
UPPER_GREEN == <<85, 255, 255>>
LOWER_PURPLE == <<125, 40, 40>>
UPPER_PURPLE == <<155, 255, 255>>

----------------------------------------------------------------------------
(* Segmentation: the end of calculate_plant_percentage *)

\* the upper bound taken as exclusive
InRangeUpperExclusive(q, lower, upper) == \A k \in 1..3 : lower[k] <= q[k] /\ q[k] < upper[k]

\* cv2.inRange on one pixel: every channel within its bounds, both inclusive
InRange(q, lower, upper) == \A k \in 1..3 : lower[k] <= q[k] /\ q[k] <= upper[k]

\* plant_mask = bitwise_or(green_mask, purple_mask), one BOOLEAN per pixel
PlantMask(hsv) ==
    [r \in 1..Len(hsv.px) |-> [c \in 1..Len(hsv.px[r]) |->
        InRange(hsv.px[r][c], LOWER_GREEN, UPPER_GREEN)
        \/ InRange(hsv.px[r][c], LOWER_PURPLE, UPPER_PURPLE)]]

\* cv2.countNonZero
CountNonZero(mask) ==
    IF mask = <<>> THEN 0
    ELSE Cardinality({ rc \in (1..Len(mask)) \X (1..Len(mask[1])) : mask[rc[1]][rc[2]] })

\* a slip of the index: img.shape[0] * img.shape[0]
TotalPixelsSquare(im) == im.h * im.h

\* total_pixels = img.shape[0] * img.shape[1]
TotalPixels(im) == im.h * im.w

\* plant_pixels of the image that is segmented
PlantPixels(im) == CountNonZero(PlantMask(BGR2HSV(im)))

\* the returned percentage as the rational <<n, d>>: 0.0 for an image without
\* pixels, else plant_pixels / total_pixels * 100
PlantPercentage(im) ==
    IF TotalPixels(im) = 0 THEN <<0, 1>>
    ELSE <<PlantPixels(im) * 100, TotalPixels(im)>>

----------------------------------------------------------------------------
(* Enhancement: PlantAnalyzer.enhance_image.  contrast and saturation are   *)
(* given in tenths (contrast10 = 2 is contrast 0.2); the values used are    *)
(* those on which float32 and exact arithmetic round alike.                 *)

\* one sample of cv2.convertScaleAbs(image, alpha = 1.0 + contrast,
\* beta = brightness): saturate_cast<uchar>(|v * alpha + beta|)
ConvertScaleAbsSample(v, contrast10, brightness) ==
    Min2(255, RoundHalfEven(Abs(v * (10 + contrast10) + 10 * brightness), 10))

ConvertScaleAbs(im, contrast10, brightness) ==
    LET F(p) == [k \in 1..3 |-> ConvertScaleAbsSample(p[k], contrast10, brightness)]
    IN  MapPixels(im, F)

\* s = np.clip(s.astype(np.float32) * saturation, 0, 255).astype(np.uint8)
ScaleSaturation(s, saturation10) ==
    Max2(0, Min2(255, (s * saturation10) \div 10))

enhance_image(im, brightness, contrast10, saturation10) ==
    LET img_enhanced == ConvertScaleAbs(im, contrast10, brightness)
        F(q) == <<q[1], ScaleSaturation(q[2], saturation10), q[3]>>
    IN  IF saturation10 # 10
        THEN HSV2BGR(MapPixels(BGR2HSV(img_enhanced), F))
        ELSE img_enhanced

\* dict.get(key, default)
Get(d, key, default) == IF key \in DOMAIN d THEN d[key] ELSE default

\* `if enhance_params is not None:` -- an empty dict enhances too
TruthyNotNone(ep) == ~ep.none

\* `if enhance_params:` -- neither None nor an empty dict
Truthy(ep) == ~ep.none /\ DOMAIN ep.d # {}

\* step 2 of calculate_plant_percentage applied to the panel
Enhanced(im, ep) ==
    IF Truthy(ep)
    THEN enhance_image(im, Get(ep.d, "brightness", 0), Get(ep.d, "contrast", 0),
                       Get(ep.d, "saturation", 10))
    ELSE im

----------------------------------------------------------------------------
(* Panel extraction: crop_front_panel after the detector has answered.     *)
(* A detector box is <<x1, y1, x2, y2>> in half pixels (3 is 1.5), as the  *)
(* detector reports floats.                                                *)

\* ndarray.astype(int): towards zero
AsInt(c2) == IF c2 >= 0 THEN c2 \div 2 ELSE -((-c2) \div 2)

\* x1, y1, x2, y2 = box.xyxy[0].cpu().numpy().astype(int), per box
Detections(raw) == [i \in 1..Len(raw) |-> [k \in 1..4 |-> AsInt(raw[i][k])]]

\* an unstable sort: d goes before the elements whose key equals its own
RECURSIVE InsertByX1Unstable(_, _)
InsertByX1Unstable(sorted, d) ==
    IF sorted = <<>> THEN <<d>>
    ELSE IF Head(sorted)[1] < d[1]
         THEN <<Head(sorted)>> \o InsertByX1Unstable(Tail(sorted), d)
         ELSE <<d>> \o sorted

\* list.sort(key = coords[0]) is stable: d goes after every element whose
\* key is <= its own
RECURSIVE InsertByX1(_, _)
InsertByX1(sorted, d) ==
    IF sorted = <<>> THEN <<d>>
    ELSE IF Head(sorted)[1] <= d[1]
         THEN <<Head(sorted)>> \o InsertByX1(Tail(sorted), d)
         ELSE <<d>> \o sorted

\* the detections left in the order the detector reported them
NoSort(ds) == ds

RECURSIVE SortByX1(_)
SortByX1(ds) ==
    IF ds = <<>> THEN <<>>
    ELSE InsertByX1(SortByX1(SubSeq(ds, 1, Len(ds) - 1)), ds[Len(ds)])

\* x1, y1 = max(0, x1), max(0, y1); x2, y2 = min(w_img, x2), min(h_img, y2)
ClipBox(d, im) == <<Max2(0, d[1]), Max2(0, d[2]), Min2(im.w, d[3]), Min2(im.h, d[4])>>

\* a Python slice bound on an axis of length n: a negative bound counts
\* from the end
SliceBound(b, n) == IF b < 0 THEN Max2(b + n, 0) ELSE Min2(b, n)

\* img[y1:y2, x1:x2]
Slice2D(im, y1, y2, x1, x2) ==
    LET r0 == SliceBound(y1, im.h)
        r1 == Max2(SliceBound(y2, im.h), r0)
        c0 == SliceBound(x1, im.w)
        c1 == Max2(SliceBound(x2, im.w), c0)
    IN  [h |-> r1 - r0, w |-> c1 - c0,
         px |-> [r \in 1..(r1 - r0) |-> [c \in 1..(c1 - c0) |-> im.px[r0 + r][c0 + c]]]]

\* the crop of one detection
CropOf(im, d) ==
    LET c == ClipBox(d, im)
    IN  Slice2D(im, c[2], c[4], c[1], c[3])

\* every crop kept, empty or not
NonEmptyAlways(c) == TRUE

\* crop.size > 0
NonEmpty(c) == Size(c) > 0

\* crops: the non-empty crops of the sorted detections
Crops(im, raw) ==
    LET sorted == SortByX1(Detections(raw))
    IN  SelectSeq([i \in 1..Len(sorted) |-> CropOf(im, sorted[i])], NonEmpty)

\* w * max_h / h rounded to the nearest integer
NewWidthRounded(w, h, max_h) == RoundHalfEven(w * max_h, h)

\* new_w = int(w * (max_h / h)); the float product truncates to this
\* quotient for all w, max_h below 15
NewWidth(w, h, max_h) == (w * max_h) \div h

\* cv2.resize's source index and weights (of 2048) for the 0-based
\* destination index x on an axis scaled from sn to dn samples
LinearOfs(x, sn, dn) ==
    LET N == (2 * x + 1) * sn - dn
        D == 2 * dn
        s0 == N \div D
        fr == N % D
    IN  IF s0 < 0 THEN [i |-> 0, a0 |-> 2048, a1 |-> 0]
        ELSE IF s0 >= sn - 1 THEN [i |-> sn - 1, a0 |-> 2048, a1 |-> 0]
        ELSE [i |-> s0, a0 |-> RoundHalfEven(2048 * (D - fr), D),
              a1 |-> RoundHalfEven(2048 * fr, D)]

\* cv2.resize(c, (dw, dh)), INTER_LINEAR on 8-bit samples: a horizontal
\* then a vertical fixed-point pass
Resize(c, dw, dh) ==
    LET Sample(r, x, k) == c.px[r + 1][x + 1][k]
        HPass(r, x, k) ==
            LET o == LinearOfs(x, c.w, dw)
            IN  Sample(r, o.i, k) * o.a0 + Sample(r, Min2(o.i + 1, c.w - 1), k) * o.a1
        VPass(y, x, k) ==
            LET o == LinearOfs(y, c.h, dh)
                t0 == HPass(o.i, x, k)
                t1 == HPass(Min2(o.i + 1, c.h - 1), x, k)
            IN  SaturateU8((((o.a0 * (t0 \div 16)) \div 65536)
                            + ((o.a1 * (t1 \div 16)) \div 65536) + 2) \div 4)
    IN  [h |-> dh, w |-> dw,
         px |-> [r \in 1..dh |-> [x \in 1..dw |-> [k \in 1..3 |-> VPass(r - 1, x - 1, k)]]]]

\* the resized_crops entry of one crop
ResizedCrop(c, max_h) ==
    IF c.h # max_h THEN Resize(c, NewWidth(c.w, c.h, max_h), max_h) ELSE c

\* cv2.hconcat of images of one height
HConcat(ims) ==
    [h |-> ims[1].h,
     w |-> SumSeq([i \in 1..Len(ims) |-> ims[i].w]),
     px |-> [r \in 1..ims[1].h |-> Flatten([i \in 1..Len(ims) |-> ims[i].px[r]])]]

\* max_h = max(c.shape[0] for c in crops)
MaxH(crops) == MaxSeq([i \in 1..Len(crops) |-> crops[i].h])

\* resized_crops
ResizedCrops(crops) == [i \in 1..Len(crops) |-> ResizedCrop(crops[i], MaxH(crops))]

\* final_img starting out empty instead of as the source image
FinalImgEmptyOnNone(im, raw) ==
    LET crops == Crops(im, raw)
    IN  IF Len(crops) = 1 THEN crops[1]
        ELSE IF Len(crops) >= 2 THEN HConcat(ResizedCrops(crops))
        ELSE [h |-> 0, w |-> 0, px |-> <<>>]

\* final_img of crop_front_panel for the detector's boxes `raw`
FinalImg(im, raw) ==
    LET crops == Crops(im, raw)
    IN  IF Len(raw) > 0
        THEN IF Len(crops) = 1 THEN crops[1]
             ELSE IF Len(crops) >= 2 THEN HConcat(ResizedCrops(crops))
             ELSE im
        ELSE im

----------------------------------------------------------------------------
(* Exact rationals <<n, d>>, d > 0, for the Python floats of the analyzer *)

RECURSIVE GCD(_, _)
GCD(a, b) == IF b = 0 THEN a ELSE GCD(b, a % b)

\* n / d in lowest terms
Rat(n, d) ==
    LET g == GCD(Abs(n), d)
    IN  <<n \div g, d \div g>>

RatEq(a, b) == a[1] * b[2] = b[1] * a[2]
RatLe(a, b) == a[1] * b[2] <= b[1] * a[2]
RatLt(a, b) == a[1] * b[2] < b[1] * a[2]
RatAdd(a, b) == Rat(a[1] * b[2] + b[1] * a[2], a[2] * b[2])
RatSub(a, b) == Rat(a[1] * b[2] - b[1] * a[2], a[2] * b[2])
RatMul(a, b) == Rat(a[1] * b[1], a[2] * b[2])
\* a / b for b > 0
RatDiv(a, b) == Rat(a[1] * b[2], a[2] * b[1])
Zero == <<0, 1>>
Hundred == <<100, 1>>

----------------------------------------------------------------------------
(* Growth: the end of compare_images *)

\* the operands exchanged: img1_percentage - img2_percentage
AbsoluteGrowthSwapped(p1, p2) == RatSub(p1, p2)

\* absolute_growth = img2_percentage - img1_percentage
AbsoluteGrowth(p1, p2) == RatSub(p2, p1)

\* the guard written with >= in place of >
RelativeDividesNonNegative(p1) == RatLe(Zero, p1)

\* the guard of relative_growth, img1_percentage > 0: whether the division
\* is evaluated
RelativeDivides(p1) == RatLt(Zero, p1)

\* relative_growth = (absolute_growth / img1_percentage * 100)
\*                   if img1_percentage > 0 else 0.0
RelativeGrowth(p1, p2) ==
    IF RelativeDivides(p1)
    THEN RatMul(RatDiv(AbsoluteGrowth(p1, p2), p1), Hundred)
    ELSE Zero

\* the dict compare_images returns
GrowthResult(p1, p2) ==
    [image1 |-> p1, image2 |-> p2,
     absolute |-> AbsoluteGrowth(p1, p2), relative |-> RelativeGrowth(p1, p2)]

----------------------------------------------------------------------------
(* Files and paths *)

InputPaths == {"a.jpg", "b.jpg"}

\* f"debug_cropped_{os.path.basename(image_path)}"
DebugCropped(p) ==
    CASE p = "a.jpg" -> "debug_cropped_a.jpg"
      [] p = "b.jpg" -> "debug_cropped_b.jpg"
      [] p = "debug_cropped_a.jpg" -> "debug_cropped_debug_cropped_a.jpg"
      [] p = "debug_enhanced_a.jpg" -> "debug_cropped_debug_enhanced_a.jpg"
\* f"debug_enhanced_{os.path.basename(image_path)}"
DebugEnhanced(p) ==
    CASE p = "a.jpg" -> "debug_enhanced_a.jpg"
      [] p = "b.jpg" -> "debug_enhanced_b.jpg"
      [] p = "debug_cropped_a.jpg" -> "debug_enhanced_debug_cropped_a.jpg"
      [] p = "debug_enhanced_a.jpg" -> "debug_enhanced_debug_enhanced_a.jpg"

DebugPaths == {DebugCropped(p) : p \in InputPaths} \cup {DebugEnhanced(p) : p \in InputPaths}
Paths == InputPaths \cup DebugPaths

NoImage == [h |-> 0, w |-> 0, px |-> <<>>]
Missing == [kind |-> "missing", im |-> NoImage]
Corrupt == [kind |-> "corrupt", im |-> NoImage]
ImageFile(im) == [kind |-> "image", im |-> im]

\* the images the input files may hold
Images == {MkImage(2, 2, 0), MkImage(3, 2, 1)}

\* the enhance_params a caller may pass: None, {}, partial and full dicts
NoParams == [none |-> TRUE, d |-> <<>>]
EmptyParams == [none |-> FALSE, d |-> <<>>]
EnhanceParams ==
    { NoParams, EmptyParams,
      [none |-> FALSE, d |-> [k \in {"brightness"} |-> -60]],
      [none |-> FALSE, d |-> [brightness |-> 10, contrast |-> 2, saturation |-> 12]] }

\* what the detector may report for an image in the pipeline
PipelineBoxes(im) ==
    { <<>>,
      << <<0, 0, 2 * im.w, 2 * im.h>> >>,
      << <<2, 0, 2 * im.w + 3, 2>>, <<-1, 0, 2, 2 * im.h>> >>,
      << <<2 * im.w, 0, 2 * im.w + 2, 2 * im.h>> >> }

NoCall == [kind |-> "none", paths |-> <<>>, do_crop |-> FALSE,
           enhance |-> NoParams, save_debug |-> FALSE]

----------------------------------------------------------------------------
(* The pipeline *)

Init ==
    /\ fs \in {f \in [Paths -> {Missing, Corrupt} \cup {ImageFile(im) : im \in Images}] :
                 \A p \in DebugPaths : f[p] = Missing}
    /\ weights \in BOOLEAN
    /\ model = "None"
    /\ call = NoCall
    /\ phase = 0
    /\ pc = "idle"
    /\ img = NoImage
    /\ boxes = <<>>
    /\ panel = NoImage
    /\ pct = <<>>
    /\ result = <<>>
    /\ exc = "none"
    /\ how = <<>>
    /\ log = <<>>

\* the path of the image being analysed
Path == call.paths[phase]
\* out_path of crop_front_panel: debug_crop_path
OutPath == DebugCropped(Path)

Event(op, arg) == <<op, arg>>

\* an exception leaves calculate_plant_percentage and, uncaught in
\* compare_images, the call
Raise(e) ==
    /\ exc' = e
    /\ pc' = "raised"

\* PlantAnalyzer.compare_images is called
CompareImages(p1, p2, do_crop, ep) ==
    /\ pc = "idle"
    /\ call' = [kind |-> "compare", paths |-> <<p1, p2>>, do_crop |-> do_crop,
                enhance |-> ep, save_debug |-> TRUE]
    /\ phase' = 1
    /\ pc' = "exists"
    /\ log' = log \o <<Event("compare_images", p1), Event("calculate_plant_percentage", p1)>>
    /\ UNCHANGED <<fs, weights, model, img, boxes, panel, pct, result, exc, how>>

\* PlantAnalyzer.calculate_plant_percentage is called on its own
CalculatePlantPercentage(p, do_crop, ep, save_debug) ==
    /\ pc = "idle"
    /\ call' = [kind |-> "single", paths |-> <<p>>, do_crop |-> do_crop,
                enhance |-> ep, save_debug |-> save_debug]
    /\ phase' = 1
    /\ pc' = "exists"
    /\ log' = Append(log, Event("calculate_plant_percentage", p))
    /\ UNCHANGED <<fs, weights, model, img, boxes, panel, pct, result, exc, how>>

\* the existence check going on to crop_front_panel whatever do_crop says
CheckExistsAlwaysCrops ==
    /\ pc = "exists"
    /\ log' = Append(log, Event("exists", Path))
    /\ IF fs[Path].kind = "missing"
       THEN Raise("FileNotFoundError(image)")
       ELSE /\ pc' = "crop_imread"
            /\ exc' = exc
    /\ UNCHANGED <<fs, weights, model, call, phase, img, boxes, panel, pct, result, how>>

\* if not os.path.exists(image_path): raise FileNotFoundError
CheckExists ==
    /\ pc = "exists"
    /\ log' = Append(log, Event("exists", Path))
    /\ IF fs[Path].kind = "missing"
       THEN Raise("FileNotFoundError(image)")
       ELSE /\ pc' = IF call.do_crop THEN "crop_imread" ELSE "imread"
            /\ exc' = exc
    /\ UNCHANGED <<fs, weights, model, call, phase, img, boxes, panel, pct, result, how>>

\* the decode tried a second time before giving up
CropImreadRetry ==
    /\ pc = "crop_imread"
    /\ IF fs[Path].kind # "image"
       THEN /\ log' = log \o <<Event("imread", Path), Event("imread", Path)>>
            /\ Raise("ValueError(image)")
            /\ img' = img
       ELSE /\ log' = Append(log, Event("imread", Path))
            /\ img' = fs[Path].im
            /\ pc' = "load_model"
            /\ exc' = exc
    /\ UNCHANGED <<fs, weights, model, call, phase, boxes, panel, pct, result, how>>

\* crop_front_panel: img = cv2.imread(image_path); None raises ValueError
CropImread ==
    /\ pc = "crop_imread"
    /\ log' = Append(log, Event("imread", Path))
    /\ IF fs[Path].kind # "image"
       THEN Raise("ValueError(image)") /\ img' = img
       ELSE /\ img' = fs[Path].im
            /\ pc' = "load_model"
            /\ exc' = exc
    /\ UNCHANGED <<fs, weights, model, call, phase, boxes, panel, pct, result, how>>

\* the except branch of crop_front_panel: logger.error, then
\* return img, out_path -- nothing raised, nothing written
InferenceFailed ==
    /\ panel' = img
    /\ pc' = "enhance"
    /\ exc' = exc
    /\ fs' = fs

\* a failed initialization remembered: once an analysis of this call could
\* not initialize the detector, load_model fails again without looking
LoadModelMissingSticky ==
    /\ pc = "load_model"
    /\ model = "None"
    /\ \/ ~weights
       \/ phase = 2 /\ how[1] \in {"weights_missing", "construct_raised"}
    /\ log' = log \o <<Event("load_model", "FileNotFoundError(weights)"),
                       Event("logger.error", "Inference failed")>>
    /\ how' = Append(how, "weights_missing")
    /\ InferenceFailed
    /\ UNCHANGED <<weights, model, call, phase, img, boxes, pct, result>>

\* model = load_model(), inside crop_front_panel's try: the weights are
\* missing and load_model raises FileNotFoundError
LoadModelMissing ==
    /\ pc = "load_model"
    /\ model = "None"
    /\ ~weights
    /\ log' = log \o <<Event("load_model", "FileNotFoundError(weights)"),
                       Event("logger.error", "Inference failed")>>
    /\ how' = Append(how, "weights_missing")
    /\ InferenceFailed
    /\ UNCHANGED <<weights, model, call, phase, img, boxes, pct, result>>

\* load_model: _model = YOLO(MODEL_WEIGHTS_PATH) succeeds
LoadModelConstruct ==
    /\ pc = "load_model"
    /\ model = "None"
    /\ weights
    /\ model' = "YOLO"
    /\ log' = Append(log, Event("load_model", "YOLO"))
    /\ pc' = "infer"
    /\ UNCHANGED <<fs, weights, call, phase, img, boxes, panel, pct, result, exc, how>>

\* load_model: YOLO(MODEL_WEIGHTS_PATH) raises; load_model re-raises and
\* crop_front_panel's except takes it
LoadModelConstructFails ==
    /\ pc = "load_model"
    /\ model = "None"
    /\ weights
    /\ log' = log \o <<Event("load_model", "Exception(YOLO)"),
                       Event("logger.error", "Inference failed")>>
    /\ how' = Append(how, "construct_raised")
    /\ InferenceFailed
    /\ UNCHANGED <<weights, model, call, phase, img, boxes, pct, result>>

\* load_model looking for the weights file on every call, also when it
\* already holds a handle
LoadModelReuseChecksWeights ==
    /\ pc = "load_model"
    /\ model # "None"
    /\ IF weights
       THEN /\ log' = Append(log, Event("load_model", "reused"))
            /\ pc' = "infer"
            /\ UNCHANGED <<fs, panel, exc, how>>
       ELSE /\ log' = log \o <<Event("load_model", "FileNotFoundError(weights)"),
                                Event("logger.error", "Inference failed")>>
            /\ how' = Append(how, "weights_missing")
            /\ InferenceFailed
    /\ UNCHANGED <<weights, model, call, phase, img, boxes, pct, result>>

\* load_model returns the handle it already holds
LoadModelReuse ==
    /\ pc = "load_model"
    /\ model # "None"
    /\ log' = Append(log, Event("load_model", "reused"))
    /\ pc' = "infer"
    /\ UNCHANGED <<fs, weights, model, call, phase, img, boxes, panel, pct, result, exc, how>>

\* results = model(image_path, verbose=False); boxes = results[0].boxes
Infer(raw) ==
    /\ pc = "infer"
    /\ boxes' = raw
    /\ log' = Append(log, Event("infer", Path))
    /\ pc' = "stitch"
    /\ UNCHANGED <<fs, weights, model, call, phase, img, panel, pct, result, exc, how>>

\* the detector call raises outside any try, as in crop.py: the exception
\* leaves crop_front_panel
InferPropagates ==
    /\ pc = "infer"
    /\ log' = Append(log, Event("infer", Path))
    /\ how' = Append(how, "infer_raised")
    /\ Raise("Exception(inference)")
    /\ UNCHANGED <<fs, weights, model, call, phase, img, boxes, panel, pct, result>>

\* the detector call raises and is tried once more before giving up
InferRaisesRetried ==
    /\ pc = "infer"
    /\ log' = log \o <<Event("infer", Path), Event("infer", Path),
                       Event("logger.error", "Inference failed")>>
    /\ how' = Append(how, "infer_raised")
    /\ InferenceFailed
    /\ UNCHANGED <<weights, model, call, phase, img, boxes, pct, result>>

\* the detector call raises
InferRaises ==
    /\ pc = "infer"
    /\ log' = log \o <<Event("infer", Path), Event("logger.error", "Inference failed")>>
    /\ how' = Append(how, "infer_raised")
    /\ InferenceFailed
    /\ UNCHANGED <<weights, model, call, phase, img, boxes, pct, result>>

\* the panel taken from the snapshot an earlier call left at out_path
\* instead of being cropped again
StitchReusesSnapshot ==
    /\ pc = "stitch"
    /\ panel' = IF fs[OutPath].kind = "image" THEN fs[OutPath].im ELSE FinalImg(img, boxes)
    /\ fs' = IF call.save_debug THEN [fs EXCEPT ![OutPath] = ImageFile(panel')] ELSE fs
    /\ log' = log
              \o (IF Len(boxes) > 0 THEN <<>>
                  ELSE <<Event("logger.warning", "No object detected")>>)
              \o (IF call.save_debug THEN <<Event("imwrite", OutPath)>> ELSE <<>>)
    /\ how' = Append(how, "stitched")
    /\ pc' = "enhance"
    /\ UNCHANGED <<weights, model, call, phase, img, boxes, pct, result, exc>>

\* crop_front_panel from `final_img = img` to its return: sort, clip, crop,
\* stitch, and the write to out_path
StitchAndSave ==
    /\ pc = "stitch"
    /\ panel' = FinalImg(img, boxes)
    /\ fs' = IF call.save_debug THEN [fs EXCEPT ![OutPath] = ImageFile(panel')] ELSE fs
    /\ log' = log
              \o (IF Len(boxes) > 0 THEN <<>>
                  ELSE <<Event("logger.warning", "No object detected")>>)
              \o (IF call.save_debug THEN <<Event("imwrite", OutPath)>> ELSE <<>>)
    /\ how' = Append(how, "stitched")
    /\ pc' = "enhance"
    /\ UNCHANGED <<weights, model, call, phase, img, boxes, pct, result, exc>>

\* do_crop is False: img = cv2.imread(image_path); None raises ValueError
Imread ==
    /\ pc = "imread"
    /\ log' = Append(log, Event("imread", Path))
    /\ IF fs[Path].kind # "image"
       THEN Raise("ValueError(image)") /\ UNCHANGED <<img, panel, how>>
       ELSE /\ img' = fs[Path].im
            /\ panel' = fs[Path].im
            /\ how' = Append(how, "no_crop")
            /\ pc' = "enhance"
            /\ exc' = exc
    /\ UNCHANGED <<fs, weights, model, call, phase, boxes, pct, result>>

\* step 2 of calculate_plant_percentage
Enhance ==
    /\ pc = "enhance"
    /\ panel' = Enhanced(panel, call.enhance)
    /\ IF Truthy(call.enhance) /\ call.save_debug
       THEN /\ fs' = [fs EXCEPT ![DebugEnhanced(Path)] = ImageFile(panel')]
            /\ log' = log \o <<Event("enhance", Path), Event("imwrite", DebugEnhanced(Path))>>
       ELSE /\ fs' = fs
            /\ log' = IF Truthy(call.enhance) THEN Append(log, Event("enhance", Path)) ELSE log
    /\ pc' = "segment"
    /\ UNCHANGED <<weights, model, call, phase, img, boxes, pct, result, exc, how>>

\* compare_images taking the first coverage for both images and going
\* straight to the growth figures
SegmentSkipsSecond ==
    /\ pc = "segment"
    /\ IF TotalPixels(panel) = 0
       THEN /\ Raise("cv2.error")
            /\ log' = Append(log, Event("segment", Path))
            /\ UNCHANGED <<pct, phase, result>>
       ELSE /\ exc' = exc
            /\ log' = Append(log, Event("segment", Path))
            /\ IF call.kind = "compare"
               THEN /\ pct' = <<PlantPercentage(panel), PlantPercentage(panel)>>
                    /\ phase' = phase
                    /\ pc' = "growth"
                    /\ result' = result
               ELSE /\ pct' = Append(pct, PlantPercentage(panel))
                    /\ phase' = phase
                    /\ pc' = "done"
                    /\ result' = <<pct'[1]>>
    /\ UNCHANGED <<fs, weights, model, call, img, boxes, panel, how>>

\* HSV conversion, thresholds, count and percentage; the value returns to
\* the caller, and compare_images goes on to its second image
Segment ==
    /\ pc = "segment"
    /\ IF TotalPixels(panel) = 0
       THEN \* cv2.cvtColor rejects an empty image
            /\ Raise("cv2.error")
            /\ log' = Append(log, Event("segment", Path))
            /\ UNCHANGED <<pct, phase, result>>
       ELSE /\ pct' = Append(pct, PlantPercentage(panel))
            /\ exc' = exc
            /\ IF call.kind = "compare"
               THEN /\ phase' = IF phase = 1 THEN 2 ELSE phase
                    /\ pc' = IF phase = 1 THEN "exists" ELSE "growth"
                    /\ result' = result
                    /\ log' = log \o <<Event("segment", Path)>>
                              \o (IF phase = 1
                                  THEN <<Event("calculate_plant_percentage", call.paths[2])>>
                                  ELSE <<>>)
               ELSE /\ phase' = phase
                    /\ pc' = "done"
                    /\ result' = <<pct'[1]>>
                    /\ log' = Append(log, Event("segment", Path))
    /\ UNCHANGED <<fs, weights, model, call, img, boxes, panel, how>>

\* compare_images: the growth figures and the returned dict; dividing by a
\* zero img1_percentage would raise ZeroDivisionError
Growth ==
    /\ pc = "growth"
    /\ log' = Append(log, Event("growth", ""))
    /\ IF RelativeDivides(pct[1]) /\ RatEq(pct[1], Zero)
       THEN Raise("ZeroDivisionError") /\ result' = result
       ELSE /\ result' = <<GrowthResult(pct[1], pct[2])>>
            /\ pc' = "done"
            /\ exc' = exc
    /\ UNCHANGED <<fs, weights, model, call, phase, img, boxes, panel, pct, how>>

Next ==
    \/ \E p1 \in InputPaths, p2 \in InputPaths, dc \in BOOLEAN, ep \in EnhanceParams :
          CompareImages(p1, p2, dc, ep)
    \/ \E p \in InputPaths, dc \in BOOLEAN, ep \in EnhanceParams, sd \in BOOLEAN :
          CalculatePlantPercentage(p, dc, ep, sd)
    \/ CheckExists
    \/ CropImread
    \/ LoadModelMissing
    \/ LoadModelConstruct
    \/ LoadModelConstructFails
    \/ LoadModelReuse
    \/ \E raw \in PipelineBoxes(img) : Infer(raw)
    \/ InferRaises
    \/ StitchAndSave
    \/ Imread
    \/ Enhance
    \/ Segment
    \/ Growth

Spec == Init /\ [][Next]_vars

----------------------------------------------------------------------------
(* Panel extraction on its own: crop_front_panel from the detector's       *)
(* answer on, for every sequence of up to MaxBoxes boxes                   *)

\* horizontal extents <<x1, x2>> in half pixels: reaching over the left
\* edge, over the right edge, and wholly left of the image
XSpans(w) == { <<-3, 2>>, <<2, 2 * w + 2>>, <<0, -2>> }
\* vertical extents <<y1, y2>>: over both edges, over the bottom edge, and
\* wholly above the image
YSpans(h) == { <<-2, 2 * h + 2>>, <<2, 2 * h + 2>>, <<2, -2>> }

CropBoxes(im) == { <<x[1], y[1], x[2], y[2]>> : x \in XSpans(im.w), y \in YSpans(im.h) }

SeqsUpTo(S, n) == UNION { [1..k -> S] : k \in 0..n }

CropImages == { MkImage(3, 3, 0), MkImage(1, 2, 3) }

InitCrop ==
    /\ img \in CropImages
    /\ boxes \in SeqsUpTo(CropBoxes(img), MaxBoxes)
    /\ fs = [p \in Paths |-> IF p = "a.jpg" THEN ImageFile(img) ELSE Missing]
    /\ weights = TRUE
    /\ model = "YOLO"
    /\ call = [kind |-> "single", paths |-> <<"a.jpg">>, do_crop |-> TRUE,
               enhance |-> NoParams, save_debug |-> FALSE]
    /\ phase = 1
    /\ pc = "stitch"
    /\ panel = NoImage
    /\ pct = <<>>
    /\ result = <<>>
    /\ exc = "none"
    /\ how = <<>>
    /\ log = << Event("calculate_plant_percentage", "a.jpg"), Event("exists", "a.jpg"),
                Event("imread", "a.jpg"), Event("load_model", "YOLO"),
                Event("infer", "a.jpg") >>

NextCrop == StitchAndSave

SpecCrop == InitCrop /\ [][NextCrop]_vars

----------------------------------------------------------------------------
(* The stitching order on its own: crop_front_panel from the detector's    *)
(* answer on, for boxes of which several reach over the left edge by       *)
(* different amounts                                                       *)

\* horizontal extents <<x1, x2>> in half pixels: two that start left of the
\* image at different x1 and one that starts inside it
OrderXSpans == { <<-6, 2>>, <<-3, 4>>, <<2, 6>> }
\* vertical extents <<y1, y2>>: the whole height and all but the top row
OrderYSpans(h) == { <<0, 2 * h>>, <<2, 2 * h>> }

OrderBoxes(im) == { <<x[1], y[1], x[2], y[2]>> : x \in OrderXSpans, y \in OrderYSpans(im.h) }

InitOrder ==
    /\ img = MkImage(3, 3, 0)
    /\ boxes \in SeqsUpTo(OrderBoxes(img), MaxBoxes)
    /\ fs = [p \in Paths |-> IF p = "a.jpg" THEN ImageFile(img) ELSE Missing]
    /\ weights = TRUE
    /\ model = "YOLO"
    /\ call = [kind |-> "single", paths |-> <<"a.jpg">>, do_crop |-> TRUE,
               enhance |-> NoParams, save_debug |-> FALSE]
    /\ phase = 1
    /\ pc = "stitch"
    /\ panel = NoImage
    /\ pct = <<>>
    /\ result = <<>>
    /\ exc = "none"
    /\ how = <<>>
    /\ log = << Event("calculate_plant_percentage", "a.jpg"), Event("exists", "a.jpg"),
                Event("imread", "a.jpg"), Event("load_model", "YOLO"),
                Event("infer", "a.jpg") >>

NextOrder == StitchAndSave

SpecOrder == InitOrder /\ [][NextOrder]_vars

----------------------------------------------------------------------------
(* The resizing of a shorter crop on its own: crop_front_panel from the    *)
(* detector's answer on, for a crop of height H and width 1 followed by a  *)
(* crop of every width w and height h < H that fits an image of MaxDim     *)
(* pixels a side                                                           *)

MaxDim == 6

\* the tall box: column 0, rows 0 to H; the short box: w columns from
\* column 1, rows 0 to h
ResizeBoxes(w, h, H) == << <<0, 0, 2, 2 * H>>, <<2, 0, 2 + 2 * w, 2 * h>> >>

InitResize ==
    /\ img = MkImage(MaxDim, MaxDim, 0)
    /\ \E H \in 2..MaxDim : \E h \in 1..(H - 1) : \E w \in 1..(MaxDim - 1) :
          boxes = ResizeBoxes(w, h, H)
    /\ fs = [p \in Paths |-> IF p = "a.jpg" THEN ImageFile(img) ELSE Missing]
    /\ weights = TRUE
    /\ model = "YOLO"
    /\ call = [kind |-> "single", paths |-> <<"a.jpg">>, do_crop |-> TRUE,
               enhance |-> NoParams, save_debug |-> FALSE]
    /\ phase = 1
    /\ pc = "stitch"
    /\ panel = NoImage
    /\ pct = <<>>
    /\ result = <<>>
    /\ exc = "none"
    /\ how = <<>>
    /\ log = << Event("calculate_plant_percentage", "a.jpg"), Event("exists", "a.jpg"),
                Event("imread", "a.jpg"), Event("load_model", "YOLO"),
                Event("infer", "a.jpg") >>

NextResize == StitchAndSave

SpecResize == InitResize /\ [][NextResize]_vars

----------------------------------------------------------------------------
(* The growth arithmetic on its own: compare_images once both coverages    *)
(* exist, for every pair of coverages of images of up to MaxTotal pixels   *)
(* (the images themselves are not part of this specification)              *)

\* the values calculate_plant_percentage can return
Coverages == UNION { { <<n * 100, d>> : n \in 0..d } : d \in 1..MaxTotal }

InitGrowth ==
    /\ pct \in { <<p1, p2>> : p1 \in Coverages, p2 \in Coverages }
    /\ fs = [p \in Paths |-> Missing]
    /\ weights = TRUE
    /\ model = "None"
    /\ call = [kind |-> "compare", paths |-> <<"a.jpg", "b.jpg">>, do_crop |-> FALSE,
               enhance |-> NoParams, save_debug |-> TRUE]
    /\ phase = 2
    /\ pc = "growth"
    /\ img = NoImage
    /\ boxes = <<>>
    /\ panel = NoImage
    /\ result = <<>>
    /\ exc = "none"
    /\ how = <<"no_crop", "no_crop">>
    /\ log = <<>>

NextGrowth == Growth

SpecGrowth == InitGrowth /\ [][NextGrowth]_vars

----------------------------------------------------------------------------
(* Segmentation on its own: the end of calculate_plant_percentage for      *)
(* images whose pixels sit on both sides of every bound of the two ranges  *)

\* BGR pixels by the HSV triple cv2.cvtColor gives them
BoundaryPixels ==
    { <<0, 255, 217>>,    \* hue 34
      <<0, 255, 209>>,    \* hue 35
      <<209, 255, 0>>,    \* hue 85
      <<217, 255, 0>>,    \* hue 86
      <<255, 0, 30>>,     \* hue 124
      <<255, 0, 38>>,     \* hue 125
      <<209, 0, 255>>,    \* hue 155
      <<200, 0, 255>>,    \* hue 156
      <<216, 255, 216>>,  \* hue 60, saturation 39
      <<215, 255, 215>>,  \* hue 60, saturation 40
      <<0, 39, 0>>,       \* hue 60, value 39
      <<0, 40, 0>>,       \* hue 60, value 40
      <<255, 216, 222>>,  \* hue 125, saturation 39
      <<255, 215, 221>>,  \* hue 125, saturation 40
      <<39, 0, 6>>,       \* hue 125, value 39
      <<40, 0, 6>> }      \* hue 125, value 40

\* the one-row images of two boundary pixels
BoundaryImages ==
    { [h |-> 1, w |-> 2, px |-> << <<p, q>> >>] : p \in BoundaryPixels, q \in BoundaryPixels }

InitSegment ==
    /\ panel \in BoundaryImages
    /\ img = panel
    /\ fs = [p \in Paths |-> IF p = "a.jpg" THEN ImageFile(panel) ELSE Missing]
    /\ weights = TRUE
    /\ model = "None"
    /\ call = [kind |-> "single", paths |-> <<"a.jpg">>, do_crop |-> FALSE,
               enhance |-> NoParams, save_debug |-> FALSE]
    /\ phase = 1
    /\ pc = "segment"
    /\ boxes = <<>>
    /\ pct = <<>>
    /\ result = <<>>
    /\ exc = "none"
    /\ how = <<"no_crop">>
    /\ log = << Event("calculate_plant_percentage", "a.jpg"), Event("exists", "a.jpg"),
                Event("imread", "a.jpg") >>

NextSegment == Segment

SpecSegment == InitSegment /\ [][NextSegment]_vars

----------------------------------------------------------------------------
(* Enhancement on its own: step 2 of calculate_plant_percentage for one    *)
(* pixel and every brightness and contrast below                           *)

\* 8-bit sample values
Samples == {0, 1, 50, 100, 128, 200, 254, 255}
\* brightness offsets
Brightnesses == {-255, -100, -60, 0, 10, 100, 255}
\* contrast factors in tenths: alpha is 0.5, 1.0, 1.2 and 1.5
Contrasts == {-5, 0, 2, 5}

InitEnhance ==
    /\ panel \in { [h |-> 1, w |-> 1, px |-> << << <<v, v, v>> >> >>] : v \in Samples }
    /\ img = panel
    /\ fs = [p \in Paths |-> IF p = "a.jpg" THEN ImageFile(panel) ELSE Missing]
    /\ weights = TRUE
    /\ model = "None"
    /\ call \in { [kind |-> "single", paths |-> <<"a.jpg">>, do_crop |-> FALSE,
                   enhance |-> [none |-> FALSE, d |-> [brightness |-> b, contrast |-> c]],
                   save_debug |-> FALSE] : b \in Brightnesses, c \in Contrasts }
    /\ phase = 1
    /\ pc = "enhance"
    /\ boxes = <<>>
    /\ pct = <<>>
    /\ result = <<>>
    /\ exc = "none"
    /\ how = <<"no_crop">>
    /\ log = << Event("calculate_plant_percentage", "a.jpg"), Event("exists", "a.jpg"),
                Event("imread", "a.jpg") >>

NextEnhance == Enhance

SpecEnhance == InitEnhance /\ [][NextEnhance]_vars

----------------------------------------------------------------------------
(* One process, call after call: calculate_plant_percentage on two image   *)
(* files with every combination of arguments, the weights file coming and  *)
(* going between the calls.  cropper._model and the files outlive a call.  *)

\* the call has returned or raised and the caller has the control again;
\* the call's locals are gone
Return ==
    /\ pc \in {"done", "raised"}
    /\ pc' = "idle"
    /\ call' = NoCall
    /\ phase' = 0
    /\ img' = NoImage
    /\ boxes' = <<>>
    /\ panel' = NoImage
    /\ pct' = <<>>
    /\ result' = <<>>
    /\ exc' = "none"
    /\ how' = <<>>
    /\ log' = <<>>
    /\ UNCHANGED <<fs, weights, model>>

\* between two calls the file at MODEL_WEIGHTS_PATH is removed or put back
WeightsChange ==
    /\ pc = "idle"
    /\ weights' = ~weights
    /\ UNCHANGED <<fs, model, call, phase, pc, img, boxes, panel, pct, result, exc, how, log>>

\* the enhance_params of the calls in sequence
SeqParams == { NoParams, [none |-> FALSE, d |-> [brightness |-> 10, contrast |-> 2, saturation |-> 12]] }

InitSeq ==
    /\ fs = [p \in Paths |-> IF p = "a.jpg" THEN ImageFile(MkImage(3, 2, 1))
                             ELSE IF p = "b.jpg" THEN ImageFile(MkImage(2, 2, 0))
                             ELSE Missing]
    /\ weights \in BOOLEAN
    /\ model = "None"
    /\ call = NoCall
    /\ phase = 0
    /\ pc = "idle"
    /\ img = NoImage
    /\ boxes = <<>>
    /\ panel = NoImage
    /\ pct = <<>>
    /\ result = <<>>
    /\ exc = "none"
    /\ how = <<>>
    /\ log = <<>>

NextSeq ==
    \/ \E p \in InputPaths, dc \in BOOLEAN, ep \in SeqParams, sd \in BOOLEAN :
          CalculatePlantPercentage(p, dc, ep, sd)
    \/ CheckExists
    \/ CropImread
    \/ LoadModelMissing
    \/ LoadModelConstruct
    \/ LoadModelConstructFails
    \/ LoadModelReuse
    \/ \E raw \in PipelineBoxes(img) : Infer(raw)
    \/ InferRaises
    \/ StitchAndSave
    \/ Imread
    \/ Enhance
    \/ Segment
    \/ Return
    \/ WeightsChange

SpecSeq == InitSeq /\ [][NextSeq]_vars

----------------------------------------------------------------------------
(* Call after call in one process, compare_images included                 *)

NextCalls ==
    \/ NextSeq
    \/ \E p1 \in InputPaths, p2 \in InputPaths, dc \in BOOLEAN, ep \in SeqParams :
          CompareImages(p1, p2, dc, ep)
    \/ Growth

SpecCalls == InitSeq /\ [][NextCalls]_vars

----------------------------------------------------------------------------
(* verify_script.py: the synthetic test images and their coverage over the *)
(* whole image.  Ratios are given in hundredths (10 is 0.1).               *)

\* int(np.sqrt(x))
ISqrt(x) == CHOOSE k \in 0..x : k * k <= x /\ (k + 1) * (k + 1) > x

\* int(np.sqrt(total_pixels * ratio)): the side of a square
SquareSide(size, ratio100) == ISqrt((size * size * ratio100) \div 100)

GreenStart(size, green100) == (size - SquareSide(size, green100)) \div 2
GreenEnd(size, green100) == GreenStart(size, green100) + SquareSide(size, green100)

\* the purple square starts 10 px past the green one, and is centred when
\* there is no green square or when it would pass the image's edge
PurpleStart(size, green100, purple100) ==
    LET side == SquareSide(size, purple100)
        offset == GreenEnd(size, green100) + 10
    IN  IF green100 > 0 /\ offset + side <= size THEN offset
        ELSE (size - side) \div 2
PurpleEnd(size, green100, purple100) ==
    PurpleStart(size, green100, purple100) + SquareSide(size, purple100)

\* the purple square drawn centred whether or not there is a green one
CreateTestImagePurpleCentred(size, green100, purple100) ==
    LET gs == GreenStart(size, green100)
        ge == GreenEnd(size, green100)
        ps == (size - SquareSide(size, purple100)) \div 2
        pe == ps + SquareSide(size, purple100)
        In(i, lo, hi) == lo <= i - 1 /\ i - 1 < hi
    IN  [h |-> size, w |-> size,
         px |-> [r \in 1..size |-> [c \in 1..size |->
                    IF purple100 > 0 /\ In(r, ps, pe) /\ In(c, ps, pe) THEN <<255, 0, 255>>
                    ELSE IF green100 > 0 /\ In(r, gs, ge) /\ In(c, gs, ge) THEN <<0, 255, 0>>
                    ELSE <<0, 0, 0>>]]]

\* the image create_test_image writes: black, the green square, then the
\* purple square drawn over it
create_test_image(size, green100, purple100) ==
    LET gs == GreenStart(size, green100)
        ge == GreenEnd(size, green100)
        ps == PurpleStart(size, green100, purple100)
        pe == PurpleEnd(size, green100, purple100)
        In(i, lo, hi) == lo <= i - 1 /\ i - 1 < hi
    IN  [h |-> size, w |-> size,
         px |-> [r \in 1..size |-> [c \in 1..size |->
                    IF purple100 > 0 /\ In(r, ps, pe) /\ In(c, ps, pe) THEN <<255, 0, 255>>
                    ELSE IF green100 > 0 /\ In(r, gs, ge) /\ In(c, gs, ge) THEN <<0, 255, 0>>
                    ELSE <<0, 0, 0>>]]]

\* <<size, green_ratio, purple_ratio>>: the two images of main, and small
\* images of every combination of ratios
VerifyConfigs ==
    { <<200, 10, 5>>, <<200, 20, 10>> }
    \cup ({10, 20, 30} \X {0, 10, 20} \X {0, 5, 10})

InitVerify ==
    /\ fs \in { [p \in Paths |-> IF p = "a.jpg"
                                  THEN ImageFile(create_test_image(c[1], c[2], c[3]))
                                  ELSE Missing] : c \in VerifyConfigs }
    /\ weights = TRUE
    /\ model = "None"
    /\ call = [kind |-> "single", paths |-> <<"a.jpg">>, do_crop |-> FALSE,
               enhance |-> NoParams, save_debug |-> FALSE]
    /\ phase = 1
    /\ pc = "exists"
    /\ img = NoImage
    /\ boxes = <<>>
    /\ panel = NoImage
    /\ pct = <<>>
    /\ result = <<>>
    /\ exc = "none"
    /\ how = <<>>
    /\ log = << Event("calculate_plant_percentage", "a.jpg") >>

NextVerify ==
    \/ CheckExists
    \/ Imread
    \/ Enhance
    \/ Segment

SpecVerify == InitVerify /\ [][NextVerify]_vars

----------------------------------------------------------------------------
(* Two analyses in one process while the weights file comes and goes:      *)
(* compare_images with do_crop set, the file system free to gain or lose   *)
(* Model/weights.pt before each analysis                                   *)

\* the weights file appears or disappears as an analysis starts
WeightsChangeBetweenAnalyses ==
    /\ pc = "exists"
    /\ weights' = ~weights
    /\ UNCHANGED <<fs, model, call, phase, pc, img, boxes, panel, pct, result, exc, how, log>>

InitRetry ==
    /\ fs = [p \in Paths |-> IF p = "a.jpg" THEN ImageFile(MkImage(3, 2, 1))
                              ELSE IF p = "b.jpg" THEN ImageFile(MkImage(2, 2, 0))
                              ELSE Missing]
    /\ weights \in BOOLEAN
    /\ model = "None"
    /\ call = NoCall
    /\ phase = 0
    /\ pc = "idle"
    /\ img = NoImage
    /\ boxes = <<>>
    /\ panel = NoImage
    /\ pct = <<>>
    /\ result = <<>>
    /\ exc = "none"
    /\ how = <<>>
    /\ log = <<>>

NextRetry ==
    \/ \E ep \in EnhanceParams : CompareImages("a.jpg", "b.jpg", TRUE, ep)
    \/ WeightsChangeBetweenAnalyses
    \/ CheckExists
    \/ CropImread
    \/ LoadModelMissing
    \/ LoadModelConstruct
    \/ LoadModelConstructFails
    \/ LoadModelReuse
    \/ \E raw \in PipelineBoxes(img) : Infer(raw)
    \/ InferRaises
    \/ StitchAndSave
    \/ Enhance
    \/ Segment
    \/ Growth

SpecRetry == InitRetry /\ [][NextRetry]_vars

----------------------------------------------------------------------------
(* load_model under threads: MaxThreads threads of one process each make   *)
(* their first load_model call, with no lock around it. The interpreter    *)
(* may switch threads between any two of a thread's steps. Here pc maps    *)
(* each thread to its position in load_model, and log holds <<step,        *)
(* thread>> for each thread's test of the shared handle _model, its        *)
(* construction and store of a model, and its leaving load_model.          *)

MaxThreads == 2

Threads == 1..MaxThreads

InitThreads ==
    /\ pc = [t \in Threads |-> "test"]
    /\ weights \in BOOLEAN
    /\ model = "None"
    /\ fs = [p \in Paths |-> Missing]
    /\ call = NoCall
    /\ phase = 0
    /\ img = NoImage
    /\ boxes = <<>>
    /\ panel = NoImage
    /\ pct = <<>>
    /\ result = <<>>
    /\ exc = "none"
    /\ how = <<>>
    /\ log = <<>>

\* the test reading the handle as unset whatever it holds
ThreadTestIgnoresHandle(t) ==
    /\ pc[t] = "test"
    /\ pc' = [pc EXCEPT ![t] = "exists"]
    /\ log' = Append(log, Event("test_none", t))
    /\ UNCHANGED <<fs, weights, model, call, phase, img, boxes, panel, pct, result, exc, how>>

\* if _model is None:
ThreadTest(t) ==
    /\ pc[t] = "test"
    /\ IF model = "None"
       THEN /\ pc' = [pc EXCEPT ![t] = "exists"]
            /\ log' = Append(log, Event("test_none", t))
       ELSE /\ pc' = [pc EXCEPT ![t] = "return"]
            /\ log' = Append(log, Event("test_set", t))
    /\ UNCHANGED <<fs, weights, model, call, phase, img, boxes, panel, pct, result, exc, how>>

\* if not os.path.exists(MODEL_WEIGHTS_PATH): raise FileNotFoundError
ThreadExists(t) ==
    /\ pc[t] = "exists"
    /\ pc' = [pc EXCEPT ![t] = IF weights THEN "construct" ELSE "raised"]
    /\ log' = IF weights THEN log ELSE Append(log, Event("raise", t))
    /\ UNCHANGED <<fs, weights, model, call, phase, img, boxes, panel, pct, result, exc, how>>

\* YOLO(MODEL_WEIGHTS_PATH) returns a new model, not yet assigned
ThreadConstruct(t) ==
    /\ pc[t] = "construct"
    /\ pc' = [pc EXCEPT ![t] = "store"]
    /\ log' = Append(log, Event("construct", t))
    /\ UNCHANGED <<fs, weights, model, call, phase, img, boxes, panel, pct, result, exc, how>>

\* YOLO(MODEL_WEIGHTS_PATH) raises: logged and raised again
ThreadConstructFails(t) ==
    /\ pc[t] = "construct"
    /\ pc' = [pc EXCEPT ![t] = "raised"]
    /\ log' = Append(log, Event("raise", t))
    /\ UNCHANGED <<fs, weights, model, call, phase, img, boxes, panel, pct, result, exc, how>>

\* _model = <the new model>
ThreadStore(t) ==
    /\ pc[t] = "store"
    /\ model' = "YOLO"
    /\ pc' = [pc EXCEPT ![t] = "return"]
    /\ log' = Append(log, Event("store", t))
    /\ UNCHANGED <<fs, weights, call, phase, img, boxes, panel, pct, result, exc, how>>

\* return _model
ThreadReturn(t) ==
    /\ pc[t] = "return"
    /\ pc' = [pc EXCEPT ![t] = "done"]
    /\ log' = Append(log, Event("return", t))
    /\ UNCHANGED <<fs, weights, model, call, phase, img, boxes, panel, pct, result, exc, how>>

NextThreads ==
    \E t \in Threads :
        \/ ThreadTest(t)
        \/ ThreadExists(t)
        \/ ThreadConstruct(t)
        \/ ThreadConstructFails(t)
        \/ ThreadStore(t)
        \/ ThreadReturn(t)

SpecThreads == InitThreads /\ [][NextThreads]_vars

----------------------------------------------------------------------------
(* compare_images when the after image carries the name of a snapshot:     *)
(* the before image is a.jpg, the after image b.jpg, debug_cropped_a.jpg   *)
(* or debug_enhanced_a.jpg, all in the working directory                   *)

AfterPaths == {"b.jpg", "debug_cropped_a.jpg", "debug_enhanced_a.jpg"}

AliasPaths ==
    Paths \cup {DebugCropped(p) : p \in AfterPaths} \cup {DebugEnhanced(p) : p \in AfterPaths}

\* the enhance_params of this specification: None and a brightness
AliasParams == { NoParams, [none |-> FALSE, d |-> [k \in {"brightness"} |-> -60]] }

\* a.jpg exists; each after path holds an image of the caller's or nothing
InitAlias ==
    /\ fs \in { f \in [AliasPaths -> {Missing, ImageFile(MkImage(2, 2, 0)),
                                       ImageFile(MkImage(3, 2, 1))}] :
                   /\ f["a.jpg"] = ImageFile(MkImage(3, 2, 1))
                   /\ \A p \in AliasPaths \ {"a.jpg"} :
                         f[p] = IF p \in AfterPaths THEN f[p] ELSE Missing
                   /\ \A p \in AfterPaths : f[p] # ImageFile(MkImage(3, 2, 1)) }
    /\ weights = TRUE
    /\ model = "None"
    /\ call = NoCall
    /\ phase = 0
    /\ pc = "idle"
    /\ img = NoImage
    /\ boxes = <<>>
    /\ panel = NoImage
    /\ pct = <<>>
    /\ result = <<>>
    /\ exc = "none"
    /\ how = <<>>
    /\ log = <<>>

NextAlias ==
    \/ \E p2 \in AfterPaths, dc \in BOOLEAN, ep \in AliasParams :
          CompareImages("a.jpg", p2, dc, ep)
    \/ CheckExists
    \/ CropImread
    \/ LoadModelConstruct
    \/ LoadModelConstructFails
    \/ LoadModelReuse
    \/ \E raw \in PipelineBoxes(img) : Infer(raw)
    \/ InferRaises
    \/ StitchAndSave
    \/ Imread
    \/ Enhance
    \/ Segment
    \/ Growth

SpecAlias == InitAlias /\ [][NextAlias]_vars

----------------------------------------------------------------------------
(* The legacy crop.py beside the packaged cropper: the packaged            *)
(* crop_front_panel runs first, then crop.crop_front_panel is called with  *)
(* the same image path and out_path and meets the same detector outcome    *)
(* (how[1] and boxes, as the packaged run recorded them). crop.py keeps    *)
(* its own handle `model`, unset when it is called. The legacy function    *)
(* leaves its panel in result and its exception in exc.                    *)

LegacyImages == Images \cup {MkImage(3, 3, 0)}

InitLegacy ==
    /\ \E im \in LegacyImages :
          fs = [p \in Paths |-> IF p = "a.jpg" THEN ImageFile(im) ELSE Missing]
    /\ weights \in BOOLEAN
    /\ model = "None"
    /\ \E sd \in BOOLEAN :
          call = [kind |-> "single", paths |-> <<"a.jpg">>, do_crop |-> TRUE,
                  enhance |-> NoParams, save_debug |-> sd]
    /\ phase = 1
    /\ pc = "crop_imread"
    /\ img = NoImage
    /\ boxes = <<>>
    /\ panel = NoImage
    /\ pct = <<>>
    /\ result = <<>>
    /\ exc = "none"
    /\ how = <<>>
    /\ log = << Event("calculate_plant_percentage", "a.jpg"), Event("exists", "a.jpg") >>

\* crop.crop_front_panel(image_path, out_path): imread, load_model and the
\* detector call outside any try, then the same crop, stitch and write
LegacyCropFrontPanel ==
    /\ pc = "enhance"
    /\ IF fs[Path].kind # "image"
       THEN Raise("ValueError(image)") /\ UNCHANGED <<fs, result, log>>
       ELSE IF ~weights
       THEN Raise("FileNotFoundError(weights)") /\ UNCHANGED <<fs, result, log>>
       ELSE IF how[1] = "construct_raised"
       THEN Raise("Exception(YOLO)") /\ UNCHANGED <<fs, result, log>>
       ELSE IF how[1] = "infer_raised"
       THEN Raise("Exception(inference)") /\ UNCHANGED <<fs, result, log>>
       ELSE LET final_img == FinalImg(fs[Path].im, boxes)
            IN  /\ result' = <<final_img>>
                /\ exc' = exc
                /\ pc' = "legacy_done"
                /\ IF call.save_debug
                   THEN /\ fs' = [fs EXCEPT ![OutPath] = ImageFile(final_img)]
                        /\ log' = Append(log, Event("legacy_imwrite", OutPath))
                   ELSE UNCHANGED <<fs, log>>
    /\ UNCHANGED <<weights, model, call, phase, img, boxes, panel, pct, how>>

NextLegacy ==
    \/ CropImread
    \/ LoadModelMissing
    \/ LoadModelConstruct
    \/ LoadModelConstructFails
    \/ \E raw \in PipelineBoxes(img) : Infer(raw)
    \/ InferRaises
    \/ StitchAndSave
    \/ LegacyCropFrontPanel

SpecLegacy == InitLegacy /\ [][NextLegacy]_vars

----------------------------------------------------------------------------
(* Properties *)

\* crop_front_panel has just returned what it cropped and stitched
StitchReturned == pc = "enhance" /\ Len(how) = phase /\ how[phase] = "stitched"

\* the clipped extent of an integer box: columns [max(0, x1), min(w, x2)),
\* rows [max(0, y1), min(h, y2))
Left(d) == Max2(0, d[1])
Top(d) == Max2(0, d[2])
Right(d, im) == Min2(im.w, d[3])
Bottom(d, im) == Min2(im.h, d[4])
ClippedWidth(d, im) == Right(d, im) - Left(d)
ClippedHeight(d, im) == Bottom(d, im) - Top(d)
PositiveArea(d, im) == ClippedWidth(d, im) > 0 /\ ClippedHeight(d, im) > 0

\* rows [y1, y2) and columns [x1, x2) of an image, 0 <= y1 <= y2 <= h and
\* 0 <= x1 <= x2 <= w
SubImage(im, y1, y2, x1, x2) ==
    [h |-> y2 - y1, w |-> x2 - x1,
     px |-> [r \in 1..(y2 - y1) |-> [c \in 1..(x2 - x1) |-> im.px[y1 + r][x1 + c]]]]

\* the sub-image a box bounds after clipping
ClippedRegion(d, im) == SubImage(im, Top(d), Bottom(d, im), Left(d), Right(d, im))

\* the reported boxes as integers, and those of positive clipped area
IntBoxes == Detections(boxes)
Survivors == { i \in 1..Len(boxes) : PositiveArea(IntBoxes[i], img) }

\* C1: every coverage calculate_plant_percentage returns lies in [0, 100]:
\* the pixels counted as plant never exceed the pixels of the segmented image
C1_CoverageInRange ==
    /\ \A i \in 1..Len(pct) : RatLe(Zero, pct[i]) /\ RatLe(pct[i], Hundred)
    /\ pc = "segment" => PlantPixels(panel) <= panel.h * panel.w

C1_Witness ==
    /\ pc = "done" /\ call.do_crop /\ Truthy(call.enhance)
    /\ how[1] = "stitched" /\ Len(boxes) = 2
    /\ RatLt(Zero, pct[1]) /\ RatLt(pct[1], Hundred)

\* C2: when the detector returns zero boxes, the panel crop_front_panel
\* returns is the decoded source image, pixel for pixel
C2_ZeroBoxesIdentity ==
    (StitchReturned /\ Len(boxes) = 0) =>
        /\ panel.w = fs[Path].im.w
        /\ panel.h = fs[Path].im.h
        /\ \A r \in 1..panel.h : \A c \in 1..panel.w : panel.px[r][c] = fs[Path].im.px[r][c]

C2_Witness ==
    /\ StitchReturned /\ Len(boxes) = 0 /\ phase = 2
    /\ panel.w * panel.h > 1

\* C3: when exactly one reported box has positive area after clipping,
\* whatever other boxes are reported, the panel is exactly the sub-image
\* that box bounds
C3_SingleBoxExactCrop ==
    (pc = "enhance" /\ Cardinality(Survivors) = 1) =>
        LET i == CHOOSE i \in Survivors : TRUE
        IN  panel = ClippedRegion(IntBoxes[i], img)

\* the width a crop of w x h has once scaled to height H
ScaledWidth(w, h, H) == IF h = H THEN w ELSE (w * H) \div h

\* the crop of a surviving box brought to height H
ScaledRegion(d, im, H) ==
    LET c == ClippedRegion(d, im)
    IN  IF c.h = H THEN c ELSE Resize(c, ScaledWidth(c.w, c.h, H), H)

Injections(n) == { f \in [1..n -> 1..n] : \A i, j \in 1..n : i # j => f[i] # f[j] }

\* C4: with two or more surviving boxes the panel's height is the largest
\* clipped crop height H, its width the sum of the crops' widths scaled to
\* H, and the scaled crops lie side by side in ascending order of x1
C4_StitchDimensions ==
    (pc = "enhance" /\ Cardinality(Survivors) >= 2) =>
        LET n == Cardinality(Survivors)
            H == CHOOSE m \in { ClippedHeight(IntBoxes[i], img) : i \in Survivors } :
                    \A i \in Survivors : ClippedHeight(IntBoxes[i], img) <= m
            \* the surviving boxes in some order of non-decreasing x1
            Orders == { o \in [1..n -> Survivors] :
                          /\ \A i, j \in 1..n : i # j => o[i] # o[j]
                          /\ \A i \in 1..(n - 1) : IntBoxes[o[i]][1] <= IntBoxes[o[i + 1]][1] }
        IN  /\ panel.h = H
            /\ \A o \in Orders :
                  panel.w = SumSeq([k \in 1..n |->
                               ScaledWidth(ClippedWidth(IntBoxes[o[k]], img),
                                           ClippedHeight(IntBoxes[o[k]], img), H)])
            /\ \E o \in Orders :
                  panel = HConcat([k \in 1..n |-> ScaledRegion(IntBoxes[o[k]], img, H)])

\* the boxes in the order f reports them
Permuted(s, f) == [i \in 1..Len(s) |-> s[f[i]]]

\* no two boxes that yield a crop share their integer left edge x1
DistinctLeftEdges ==
    \A i, j \in 1..Len(boxes) :
        (i # j /\ NonEmpty(CropOf(img, IntBoxes[i])) /\ NonEmpty(CropOf(img, IntBoxes[j])))
            => IntBoxes[i][1] # IntBoxes[j][1]

\* C5 as stated: every order in which the detector reports the same boxes
\* yields the same panel
C5_AnyOrderSamePanel ==
    pc = "enhance" =>
        \A f \in Injections(Len(boxes)) : FinalImg(img, Permuted(boxes, f)) = panel

\* C5 amended: every order in which the detector reports the same boxes
\* yields the same panel, provided no two boxes that yield a crop share
\* their integer left edge x1
C5_DistinctEdgesSamePanel ==
    (pc = "enhance" /\ DistinctLeftEdges) =>
        \A f \in Injections(Len(boxes)) : FinalImg(img, Permuted(boxes, f)) = panel

C5_Witness ==
    /\ pc = "enhance" /\ DistinctLeftEdges
    /\ Len(boxes) = 3 /\ Len(Crops(img, boxes)) = 3
    /\ IntBoxes[1][1] > IntBoxes[2][1] /\ IntBoxes[2][1] > IntBoxes[3][1]
    /\ panel.w > img.w

\* C6: when the before coverage is 0, compare_images returns relative
\* growth exactly 0 and raises no division fault, whatever the after
\* coverage; two coverages of 0 give absolute growth 0 as well
C6_ZeroBeforeRelativeZero ==
    (pc \in {"done", "raised"} /\ call.kind = "compare" /\ Len(pct) = 2
     /\ RatEq(pct[1], Zero)) =>
        /\ pc = "done"
        /\ exc = "none"
        /\ result[1].relative[1] = 0
        /\ RatEq(pct[2], Zero) => result[1].absolute[1] = 0

C6_Witness ==
    /\ pc = "done" /\ call.kind = "compare"
    /\ RatEq(pct[1], Zero) /\ RatLt(Zero, pct[2])
    /\ result[1].relative[1] = 0

\* C7: compare_images returns absolute = after - before, the difference of
\* the two coverages of the same result, and for before > 0
\* relative = (after - before) / before * 100; 15 and 30 give +15 and +100
C7_GrowthArithmetic ==
    (pc = "done" /\ call.kind = "compare") =>
        LET r == result[1]
        IN  /\ r.image1 = pct[1]
            /\ r.image2 = pct[2]
            /\ RatEq(RatAdd(r.absolute, r.image1), r.image2)
            /\ RatLt(Zero, pct[1]) =>
                  RatEq(RatAdd(RatMul(r.relative, pct[1]), RatMul(Hundred, pct[1])),
                        RatMul(Hundred, pct[2]))
            /\ (RatEq(pct[1], <<15, 1>>) /\ RatEq(pct[2], <<30, 1>>)) =>
                  RatEq(r.absolute, <<15, 1>>) /\ RatEq(r.relative, Hundred)

C7_Witness ==
    /\ pc = "done" /\ call.kind = "compare"
    /\ pct = << <<300, 20>>, <<600, 20>> >>
    /\ RatEq(result[1].relative, Hundred)

\* C8: when the detector's inference call raises, crop_front_panel returns
\* the decoded source image unmodified, the coverage of that image is
\* computed over the whole image, and the failure never reaches the caller
C8_InferenceFailureFallsBack ==
    \A i \in 1..Len(how) : how[i] = "infer_raised" =>
        /\ exc # "Exception(inference)"
        /\ (i = phase /\ pc = "enhance") => panel = fs[call.paths[i]].im
        /\ pc = "raised" => phase > i
        /\ i <= Len(pct) =>
              pct[i] = PlantPercentage(Enhanced(fs[call.paths[i]].im, call.enhance))

C8_Witness ==
    /\ pc = "done" /\ call.kind = "compare"
    /\ how = <<"infer_raised", "stitched">>
    /\ Len(result) = 1

\* C9: when the model weights are missing, the call that needs the detector
\* fails: load_model's error reaches the caller and no coverage is returned
C9_MissingWeightsFatal ==
    \A i \in 1..Len(how) : how[i] = "weights_missing" =>
        /\ Len(pct) < i
        /\ pc # "done"
        /\ pc = "raised" => exc = "FileNotFoundError(weights)"

\* what the call did for the image being analysed
PhaseStart ==
    CHOOSE k \in 1..Len(log) :
        /\ log[k][1] = "calculate_plant_percentage"
        /\ \A j \in (k + 1)..Len(log) : log[j][1] # "calculate_plant_percentage"
PhaseLog == SubSeq(log, PhaseStart, Len(log))
CountOps(l, op) == Cardinality({ k \in 1..Len(l) : l[k][1] = op })

\* C10: a missing image raises FileNotFoundError and an undecodable one
\* ValueError, after at most one decode attempt, before the detector is
\* loaded or invoked and without any debug snapshot being written
C10_ImageErrorsImmediate ==
    /\ (phase >= 1 /\ pc \notin {"idle", "exists"} /\ fs[Path].kind = "missing") =>
          (pc = "raised" /\ exc = "FileNotFoundError(image)")
    /\ (phase >= 1 /\ pc \notin {"idle", "exists", "crop_imread", "imread"}
        /\ fs[Path].kind = "corrupt") =>
          (pc = "raised" /\ exc = "ValueError(image)")
    /\ (pc = "raised" /\ exc \in {"FileNotFoundError(image)", "ValueError(image)"}) =>
          /\ CountOps(PhaseLog, "imread") = (IF exc = "ValueError(image)" THEN 1 ELSE 0)
          /\ CountOps(PhaseLog, "load_model") = 0
          /\ CountOps(PhaseLog, "infer") = 0
          /\ CountOps(PhaseLog, "imwrite") = 0

C10_Witness ==
    /\ pc = "raised" /\ exc = "ValueError(image)"
    /\ call.do_crop /\ phase = 2 /\ model = "YOLO"
    /\ fs[DebugCropped(call.paths[1])].kind = "image"

\* the boxes, as reported, whose clipped extent has positive area
KeptBoxes == SelectSeq(boxes, LAMBDA b : PositiveArea([k \in 1..4 |-> AsInt(b[k])], img))

\* C11: every box whose clipped extent has width <= 0 or height <= 0 is
\* discarded and contributes no pixels: the panel is the one the boxes of
\* positive clipped area alone give, and the source image when there is none
C11_EmptyBoxesDiscarded ==
    pc = "enhance" =>
        /\ Len(Crops(img, boxes)) = Cardinality(Survivors)
        /\ panel = (IF KeptBoxes = <<>> THEN img ELSE FinalImg(img, KeptBoxes))

\* the HSV triples of the segmented image that lie in the green or in the
\* purple range, bounds included
PlantPositions ==
    LET hsv == BGR2HSV(panel)
        Green(q) == 35 <= q[1] /\ q[1] <= 85 /\ 40 <= q[2] /\ q[2] <= 255
                    /\ 40 <= q[3] /\ q[3] <= 255
        Purple(q) == 125 <= q[1] /\ q[1] <= 155 /\ 40 <= q[2] /\ q[2] <= 255
                     /\ 40 <= q[3] /\ q[3] <= 255
    IN  { rc \in (1..panel.h) \X (1..panel.w) :
            Green(hsv.px[rc[1]][rc[2]]) \/ Purple(hsv.px[rc[1]][rc[2]]) }

\* C12: the pixels counted as plant are those whose hue, saturation and
\* value all lie within the green range or all within the purple range,
\* both bounds inclusive, each counted once; coverage is count / (h * w) * 100
C12_InclusiveRangeCount ==
    (pc = "done" /\ call.kind = "single") =>
        /\ PlantPixels(panel) = Cardinality(PlantPositions)
        /\ result[1] = <<Cardinality(PlantPositions) * 100, panel.h * panel.w>>

C12_Witness ==
    /\ pc = "done"
    /\ BGR2HSVPixel(panel.px[1][1]) = <<85, 255, 255>>
    /\ BGR2HSVPixel(panel.px[1][2]) = <<86, 255, 255>>
    /\ result[1] = <<100, 2>>

\* clamp(v * (1 + contrast) + brightness, 0, 255), contrast in tenths,
\* rounded to the nearest sample
ClampedSample(v, contrast10, brightness) ==
    LET t == v * (10 + contrast10) + 10 * brightness
    IN  IF t <= 0 THEN 0 ELSE Min2(255, RoundHalfEven(t, 10))

\* C13: the brightness/contrast stage outputs
\* clamp(v * (1 + contrast) + brightness, 0, 255) for every sample, 0
\* whenever v * (1 + contrast) + brightness is negative
C13_BrightnessContrastClamps ==
    (pc = "segment" /\ Truthy(call.enhance) /\ Get(call.enhance.d, "saturation", 10) = 10
     /\ how[phase] = "no_crop") =>
        \A r \in 1..img.h : \A c \in 1..img.w : \A k \in 1..3 :
            panel.px[r][c][k] = ClampedSample(img.px[r][c][k],
                                              Get(call.enhance.d, "contrast", 0),
                                              Get(call.enhance.d, "brightness", 0))

\* the panel the running call's inputs determine: the source pixels, and
\* the detector's boxes when the detector answered
DeterminedPanel ==
    IF how[1] = "stitched" THEN FinalImg(fs[Path].im, boxes) ELSE fs[Path].im

\* C14: the value calculate_plant_percentage returns is a function of the
\* pixel buffer, the colour ranges, enhance_params and the detector's answer
\* alone: the same for every earlier history of calls, every state of the
\* detector handle and every file earlier calls left behind
C14_CoverageDeterministic ==
    (pc = "done" /\ call.kind = "single") =>
        result[1] = PlantPercentage(Enhanced(DeterminedPanel, call.enhance))

C14_Witness ==
    /\ pc = "done" /\ call.kind = "single" /\ call.do_crop /\ ~call.save_debug
    /\ how = <<"stitched">> /\ Len(boxes) > 0
    /\ model = "YOLO" /\ ~weights
    /\ fs[DebugCropped("a.jpg")].kind = "image"
    /\ fs[DebugCropped("a.jpg")].im # FinalImg(img, boxes)

\* C20: the detector handle is constructed lazily and at most once: it is
\* absent until a load_model call constructs it, and once constructed every
\* load_model call returns it without constructing again and without
\* looking for the weights file
C20_HandleLazyOnce ==
    [][ /\ (model' # model) =>
              (pc = "load_model" /\ model = "None" /\ weights /\ model' = "YOLO")
        /\ (model = "YOLO" /\ pc = "load_model") =>
              (pc' = "infer" /\ log' = Append(log, Event("load_model", "reused")))
        /\ (pc = "idle" /\ pc' # "idle") => model' = model ]_vars

C20_Witness ==
    /\ pc = "infer" /\ model = "YOLO" /\ ~weights
    /\ log[Len(log)] = Event("load_model", "reused")

\* the steps of one image's analysis, in the order of the pipeline
StepRank(op) ==
    CASE op = "exists" -> 1
      [] op = "imread" -> 2
      [] op = "load_model" -> 3
      [] op = "infer" -> 4
      [] op = "enhance" -> 5
      [] op = "segment" -> 6
      [] OTHER -> 0

\* the steps of a log in order, other events left out
StepsOf(l) == SelectSeq([k \in 1..Len(l) |-> StepRank(l[k][1])], LAMBDA n : n > 0)

\* C17: when compare_images with do_crop and non-empty enhance_params
\* returns a result, debug_cropped_ and debug_enhanced_ snapshots of both
\* images have been written during the call, whatever the detector did:
\* boxes, no boxes, or a failed inference call
C17_FourSnapshots ==
    (pc = "done" /\ call.kind = "compare" /\ call.do_crop /\ Truthy(call.enhance)
     /\ \A i \in 1..2 : how[i] \in {"stitched", "infer_raised"}) =>
        \A i \in 1..2 :
            /\ fs[DebugCropped(call.paths[i])].kind = "image"
            /\ fs[DebugEnhanced(call.paths[i])].kind = "image"
            /\ \E k \in 1..Len(log) : log[k] = Event("imwrite", DebugCropped(call.paths[i]))
            /\ \E k \in 1..Len(log) : log[k] = Event("imwrite", DebugEnhanced(call.paths[i]))

\* C18: within one compare_images call the steps of the before image run
\* in order and are complete before the after image's analysis starts, the
\* growth figures come after both coverages, and when the before image's
\* analysis raises nothing is done for the after image and nothing returned
C18_StrictSequence ==
    call.kind = "compare" =>
        /\ CountOps(log, "calculate_plant_percentage") = phase
        /\ LET steps == StepsOf(PhaseLog)
           IN  \A k \in 1..(Len(steps) - 1) : steps[k] < steps[k + 1]
        /\ phase = 2 =>
              /\ Len(pct) >= 1
              /\ log[PhaseStart - 1][1] = "segment"
              /\ CountOps(SubSeq(log, 1, PhaseStart - 1), "segment") = 1
        /\ (pc \in {"growth", "done"} \/ CountOps(log, "growth") > 0) =>
              /\ phase = 2
              /\ Len(pct) = 2
              /\ CountOps(log, "segment") = 2
        /\ pc = "done" => (Len(result) = 1 /\ log[Len(log)][1] = "growth")
        /\ (pc = "raised" /\ phase = 1) =>
              /\ result = <<>>
              /\ CountOps(log, "imread") <= 1
              /\ CountOps(log, "infer") <= 1
              /\ CountOps(log, "growth") = 0

C18_Witness ==
    /\ pc = "done" /\ call.kind = "compare" /\ call.do_crop /\ Truthy(call.enhance)
    /\ call.paths[1] # call.paths[2]
    /\ how = <<"stitched", "stitched">>
    /\ StepsOf(PhaseLog) = <<1, 2, 3, 4, 5, 6>>

\* the detector handle was available to the current image's analysis
HandleAvailable ==
    \E k \in 1..Len(PhaseLog) :
        PhaseLog[k] \in {Event("load_model", "YOLO"), Event("load_model", "reused")}

\* C19: a do_crop analysis of a decodable image with the handle available
\* invokes the detector exactly once, neither skipped for a result of an
\* earlier call nor retried after a failure; one compare_images call makes
\* exactly two inference calls, also on one file twice
C19_InferenceExactlyOnce ==
    phase >= 1 =>
        /\ CountOps(PhaseLog, "infer") <= 1
        /\ (HandleAvailable /\ pc # "infer") => CountOps(PhaseLog, "infer") = 1
        /\ (call.kind = "compare" /\ pc \in {"growth", "done"}
            /\ \A i \in 1..2 : how[i] \in {"stitched", "infer_raised"}) =>
              CountOps(log, "infer") = 2

C19_Witness ==
    /\ pc = "done" /\ call.kind = "compare" /\ call.do_crop
    /\ call.paths[1] = call.paths[2]
    /\ how = <<"infer_raised", "infer_raised">>
    /\ CountOps(log, "infer") = 2

\* the pixels of an image that have the colour p
CountColour(im, p) ==
    Cardinality({ rc \in (1..im.h) \X (1..im.w) : im.px[rc[1]][rc[2]] = p })

\* C15: create_test_image(200, 0.1, 0.05) has a centred green square of
\* side floor(sqrt(4000)), a magenta square of side floor(sqrt(2000)) 10 px
\* past the green square's end, the two do not overlap, and its coverage
\* over the whole image is within 1 of 15
C15_FirstTestImage ==
    (pc = "done" /\ fs["a.jpg"].im.h = 200
     /\ fs["a.jpg"].im = create_test_image(200, 10, 5)) =>
        LET g == SquareSide(200, 10)
            p == SquareSide(200, 5)
        IN  /\ g * g <= 4000 /\ (g + 1) * (g + 1) > 4000
            /\ p * p <= 2000 /\ (p + 1) * (p + 1) > 2000
            /\ GreenStart(200, 10) = (200 - g) \div 2
            /\ PurpleStart(200, 10, 5) = GreenEnd(200, 10) + 10
            /\ PurpleEnd(200, 10, 5) <= 200
            /\ CountColour(fs["a.jpg"].im, <<0, 255, 0>>) = g * g
            /\ CountColour(fs["a.jpg"].im, <<255, 0, 255>>) = p * p
            /\ RatLe(<<14, 1>>, result[1]) /\ RatLe(result[1], <<16, 1>>)

C15_Witness ==
    /\ pc = "done" /\ fs["a.jpg"].im.h = 200
    /\ fs["a.jpg"].im.px[69][69] = <<0, 255, 0>>
    /\ fs["a.jpg"].im.px[142][142] = <<255, 0, 255>>
    /\ result[1] = <<590500, 40000>>

\* C16: create_test_image(200, 0.2, 0.1) has a green square of 20% and a
\* purple square of 10% that do not overlap, and its coverage over the
\* whole image is within 1 of 30
C16_SecondTestImage ==
    (pc = "done" /\ fs["a.jpg"].im.h = 200
     /\ fs["a.jpg"].im = create_test_image(200, 20, 10)) =>
        LET g == SquareSide(200, 20)
            p == SquareSide(200, 10)
        IN  /\ CountColour(fs["a.jpg"].im, <<0, 255, 0>>) = g * g
            /\ CountColour(fs["a.jpg"].im, <<255, 0, 255>>) = p * p
            /\ RatLe(<<29, 1>>, result[1]) /\ RatLe(result[1], <<31, 1>>)

\* the surviving boxes' report indices in ascending order of key[i], equal
\* keys in report order
SurvivorsBy(key) ==
    LET n == Cardinality(Survivors)
    IN  CHOOSE o \in [1..n -> Survivors] :
            \A i \in 1..(n - 1) :
                \/ key[o[i]] < key[o[i + 1]]
                \/ key[o[i]] = key[o[i + 1]] /\ o[i] < o[i + 1]

\* the panel made of the surviving boxes' crops in the order o
PanelInOrder(o) ==
    LET H == CHOOSE m \in { ClippedHeight(IntBoxes[i], img) : i \in Survivors } :
                \A i \in Survivors : ClippedHeight(IntBoxes[i], img) <= m
    IN  HConcat([k \in 1..Len(o) |-> ScaledRegion(IntBoxes[o[k]], img, H)])

\* C21 as stated: the surviving crops lie in the panel in ascending order of
\* their clipped left edge max(0, x1), and crops of equal clipped left edge
\* (two boxes of different negative x1 included) in report order
C21_ClippedEdgeOrder ==
    (pc = "enhance" /\ Cardinality(Survivors) >= 2) =>
        panel = PanelInOrder(SurvivorsBy([i \in 1..Len(boxes) |-> Left(IntBoxes[i])]))

\* C21 amended: the surviving crops lie in the panel in ascending order of
\* their integer left edge x1 before clipping, crops of equal x1 in report
\* order; two boxes of different negative x1 lie in ascending order of x1
\* however they were reported
C21_RawEdgeOrder ==
    (pc = "enhance" /\ Cardinality(Survivors) >= 2) =>
        panel = PanelInOrder(SurvivorsBy([i \in 1..Len(boxes) |-> IntBoxes[i][1]]))

C21_Witness ==
    /\ pc = "enhance" /\ Len(boxes) = 3 /\ Cardinality(Survivors) = 3
    /\ IntBoxes[1][1] = -1 /\ IntBoxes[2][1] = -3 /\ IntBoxes[3][1] = -3
    /\ boxes[2] # boxes[3]
    /\ panel # PanelInOrder(<<1, 2, 3>>)
    /\ panel # PanelInOrder(<<3, 2, 1>>)

\* two boxes survive, the first as the taller crop
TallThenShort ==
    /\ pc = "enhance" /\ Len(boxes) = 2 /\ Survivors = {1, 2}
    /\ IntBoxes[1][1] < IntBoxes[2][1]
    /\ ClippedHeight(IntBoxes[1], img) > ClippedHeight(IntBoxes[2], img)

\* the width the short crop has in the panel
ShortCropWidthInPanel == panel.w - ClippedWidth(IntBoxes[1], img)

\* C22 as stated: a crop of width w and height h < H is resized to height H
\* and to the integer nearest to w*H/h, which is at least 1
C22_WidthNearest ==
    TallThenShort =>
        LET w == ClippedWidth(IntBoxes[2], img)
            h == ClippedHeight(IntBoxes[2], img)
            H == ClippedHeight(IntBoxes[1], img)
            n == ShortCropWidthInPanel
        IN  /\ panel.h = H
            /\ 2 * Abs(n * h - w * H) <= h
            /\ n >= 1

\* C22 amended: a crop of width w and height h < H is resized to height H
\* and to w*H/h with the fraction dropped, which is at least w
C22_WidthTruncated ==
    TallThenShort =>
        LET w == ClippedWidth(IntBoxes[2], img)
            h == ClippedHeight(IntBoxes[2], img)
            H == ClippedHeight(IntBoxes[1], img)
            n == ShortCropWidthInPanel
        IN  /\ panel.h = H
            /\ n * h <= w * H /\ w * H < (n + 1) * h
            /\ n >= w /\ n >= 1

C22_Witness ==
    /\ TallThenShort
    /\ ClippedWidth(IntBoxes[2], img) = 2
    /\ ClippedHeight(IntBoxes[2], img) = 3
    /\ ClippedHeight(IntBoxes[1], img) = 4
    /\ ShortCropWidthInPanel = 2

\* the 'No object detected' warning has been logged
NoDetectionWarned == \E k \in 1..Len(log) : log[k] = Event("logger.warning", "No object detected")

\* C23: whenever no box survives clipping, the detector having returned no
\* box or only boxes of zero area, crop_front_panel returns the unmodified
\* source image, logs the 'No object detected' warning and raises nothing
C23_NoSurvivorWarned ==
    (pc = "enhance" /\ Survivors = {}) =>
        /\ panel = img
        /\ exc = "none"
        /\ NoDetectionWarned

\* boxes were reported, none yields a crop, and the source image is
\* returned without the warning
C23_SilentFallback ==
    /\ pc = "enhance" /\ Len(boxes) > 0 /\ Survivors = {}
    /\ Len(Crops(img, boxes)) = 0
    /\ panel = img /\ ~NoDetectionWarned

\* what load_model did, call by call
IsLoadModel(e) == e[1] = "load_model"
LoadEvents == SelectSeq(log, IsLoadModel)

\* the first analysis could not initialize the detector and the second has
\* been through crop_front_panel
SecondAfterFailedInit ==
    Len(how) = 2 /\ how[1] \in {"weights_missing", "construct_raised"}

StepAt(op, t) ==
    IF \E k \in 1..Len(log) : log[k] = Event(op, t)
    THEN CHOOSE k \in 1..Len(log) : log[k] = Event(op, t)
    ELSE 0

Constructors == { t \in Threads : StepAt("construct", t) > 0 }

\* where thread t tested the handle and where it left load_model
TestAt(t) == Max2(StepAt("test_none", t), StepAt("test_set", t))
ExitAt(t) == Max2(StepAt("return", t), StepAt("raise", t))

\* no thread entered load_model while another was inside it
Serialized ==
    \A t, u \in Threads :
        (TestAt(t) > 0 /\ TestAt(t) < TestAt(u)) =>
            (ExitAt(t) > 0 /\ ExitAt(t) < TestAt(u))

\* C25: without a lock around load_model two threads making their first
\* call can both read the handle as unset before either stores it, then the
\* model is constructed twice and the handle overwritten; two threads
\* construct only if each tested the handle before the other stored it, and
\* serialized callers construct at most once
C25_TwiceOnlyUnserialized ==
    /\ \A t, u \in Constructors :
          (t # u /\ StepAt("store", u) > 0) =>
              StepAt("test_none", t) < StepAt("store", u)
    /\ Serialized => Cardinality(Constructors) <= 1
    /\ model = "YOLO" <=> CountOps(log, "store") >= 1

C25_Witness ==
    /\ \A t \in Threads : pc[t] = "done"
    /\ Cardinality(Constructors) = 2
    /\ CountOps(log, "store") = 2
    /\ ~Serialized

\* a file this call wrote as a snapshot was later decoded as an input
SnapshotReadBack ==
    \E k, l \in 1..Len(log) :
        /\ k < l
        /\ log[k][1] = "imwrite"
        /\ log[l][1] = "imread"
        /\ log[l][2] = log[k][2]

\* C26: no file written as a debug snapshot during a compare_images call is
\* afterwards read as an input image by that call, also when the after path
\* names debug_cropped_<before> or debug_enhanced_<before>
C26_SnapshotsNeverRead == ~SnapshotReadBack

\* the after image the caller named was overwritten by the snapshot of the
\* before image, and the snapshot was measured in its place
C26_AfterImageClobbered ==
    /\ pc = "done" /\ call.kind = "compare" /\ call.do_crop
    /\ call.paths = <<"a.jpg", "debug_cropped_a.jpg">>
    /\ SnapshotReadBack
    /\ how = <<"stitched", "stitched">>
    /\ img.w = 3

\* the panel as crop_front_panel or imread handed it to the enhancement
PanelBeforeEnhance == IF how[phase] = "stitched" THEN FinalImg(img, boxes) ELSE img

\* a dict of enhance_params with brightness 0, contrast 0 and saturation
\* 1.0 for the keys it lacks
WithDefaults(d) ==
    [k \in {"brightness", "contrast", "saturation"} |->
        IF k \in DOMAIN d THEN d[k] ELSE IF k = "saturation" THEN 10 ELSE 0]

\* C27: the enhancement runs if and only if enhance_params is a non-empty
\* dict, with brightness 0, contrast 0 and saturation 1.0 for absent keys;
\* with None or an empty dict the segmented image is exactly the panel and
\* no debug_enhanced snapshot is written, even with save_debug set
C27_EnhanceIffNonEmptyDict ==
    pc = "segment" =>
        LET ep == call.enhance
            ran == CountOps(PhaseLog, "enhance") = 1
            wrote == \E k \in 1..Len(PhaseLog) :
                         PhaseLog[k] = Event("imwrite", DebugEnhanced(Path))
            p == WithDefaults(ep.d)
        IN  /\ ran <=> (~ep.none /\ DOMAIN ep.d # {})
            /\ ran => /\ panel = enhance_image(PanelBeforeEnhance, p.brightness,
                                                p.contrast, p.saturation)
                      /\ wrote <=> call.save_debug
            /\ ~ran => /\ panel = PanelBeforeEnhance
                       /\ ~wrote
                       /\ fs[DebugEnhanced(Path)] = Missing

C27_Witness ==
    /\ pc = "segment" /\ call.kind = "compare" /\ phase = 2
    /\ call.enhance = EmptyParams /\ call.save_debug
    /\ how = <<"stitched", "stitched">> /\ Len(boxes) = 2
    /\ fs[DebugCropped(Path)] = ImageFile(panel)
    /\ fs[DebugEnhanced(Path)] = Missing

\* C28: with do_crop=False calculate_plant_percentage and compare_images
\* never load or invoke the detector: the handle keeps its value, no
\* debug_cropped snapshot is written, the coverage is that of the entire
\* decoded image, and the call succeeds also when the weights are missing
C28_NoCropNoDetector ==
    [][ (call'.kind # "none" /\ ~call'.do_crop) =>
            /\ model' = model
            /\ \A p \in InputPaths : fs'[DebugCropped(p)] = fs[DebugCropped(p)]
            /\ CountOps(log', "load_model") = 0
            /\ CountOps(log', "infer") = 0
            /\ pc' # "raised"
            /\ \A i \in 1..Len(pct') :
                  LET im == fs[call'.paths[i]].im
                  IN  /\ pct'[i] = PlantPercentage(Enhanced(im, call'.enhance))
                      /\ pct'[i][2] = im.w * im.h ]_vars

C28_Witness ==
    /\ pc = "done" /\ call.kind = "compare" /\ ~call.do_crop
    /\ ~weights /\ model = "YOLO"
    /\ call.paths = <<"a.jpg", "b.jpg">>
    /\ fs[DebugCropped("b.jpg")] = Missing
    /\ Len(pct) = 2

\* C29: whatever boxes the detector reports for a decodable image, the panel
\* crop_front_panel returns has width >= 1 and height >= 1, so the image
\* handed to segmentation never has zero pixels
C29_PanelNeverEmpty ==
    pc = "enhance" =>
        /\ panel.w >= 1 /\ panel.h >= 1
        /\ Len(panel.px) = panel.h
        /\ \A r \in 1..panel.h : Len(panel.px[r]) = panel.w
        /\ \A ep \in EnhanceParams : TotalPixels(Enhanced(panel, ep)) > 0

C29_Witness ==
    /\ pc = "enhance" /\ Len(boxes) = 3
    /\ Len(Crops(img, boxes)) = 2
    /\ Cardinality(Survivors) = 2
    /\ panel.w > img.w

\* both crop_front_panel functions have ended
BothEnded == pc \in {"legacy_done", "raised"}

\* the legacy function returned the packaged one's panel and wrote the same
\* file, or neither wrote
SamePanelSameFile ==
    /\ pc = "legacy_done"
    /\ exc = "none"
    /\ result = <<panel>>
    /\ CountOps(log, "legacy_imwrite") = CountOps(log, "imwrite")
    /\ call.save_debug => fs[OutPath] = ImageFile(panel)

\* C30 as stated: for the same decodable image, the same out_path and the
\* same detector outcome (boxes, missing weights or a failing inference)
\* the legacy and the packaged crop_front_panel end the same way; the
\* packaged one having returned a panel, so does the legacy one, the same,
\* with the same file written
C30_LegacyEquivalent == BothEnded => SamePanelSameFile

\* for a failing inference the packaged function returned the source image
\* and the legacy one raised
C30_Diverges ==
    /\ pc = "raised" /\ exc = "Exception(inference)"
    /\ how = <<"infer_raised">>
    /\ panel = img /\ img.w = 3
    /\ result = <<>>

====
